---- MODULE Spec2Model ----
(***************************************************************************)
(* A model of the Bring client (bring_api/bring.py): the Session held by   *)
(* a Bring object, and one action per public coroutine.  Every HTTP        *)
(* response the remote service can give is an input of the action that     *)
(* awaits it.                                                              *)
(***************************************************************************)
EXTENDS Integers, Sequences, FiniteSets, TLC

VARIABLES bring, now, op, args, sent, got, result, tasks

vars == <<bring, now, op, args, sent, got, result, tasks>>

(***************************************************************************)
(* Bounds of the model.                                                    *)
(***************************************************************************)
\* the clock runs from 0 to MaxTime
MaxTime == 2
\* a token response carries expires_in in 1..MaxExpiresIn
MaxExpiresIn == 2

(***************************************************************************)
(* const.py                                                                *)
(***************************************************************************)
BRING_DEFAULT_LOCALE == "de-CH"

BRING_SUPPORTED_LOCALES ==
    {"de-AT", "de-CH", "de-DE", "en-AU", "en-CA", "en-GB", "en-US", "es-ES",
     "fr-CH", "fr-FR", "hu-HU", "it-CH", "it-IT", "nb-NO", "nl-NL", "pl-PL",
     "pt-BR", "ru-RU", "sv-SE", "tr-TR"}

MAP_LANG_TO_LOCALE ==
    [de |-> "de-DE", en |-> "en-US", es |-> "es-ES", fr |-> "fr-FR",
     hu |-> "hu-HU", it |-> "it-IT", nb |-> "nb-NO", nl |-> "nl-NL",
     pl |-> "pl-PL", pt |-> "pt-BR", ru |-> "ru-RU", sv |-> "sv-SE",
     tr |-> "tr-TR"]

DEFAULT_HEADERS ==
    [k \in {"Authorization", "X-BRING-API-KEY", "X-BRING-CLIENT",
            "X-BRING-APPLICATION", "X-BRING-COUNTRY", "X-BRING-USER-UUID"} |->
        CASE k = "Authorization" -> "Bearer"
          [] k = "X-BRING-API-KEY" -> "cof4Nc6D8saplXjE3h3HXqHH8m7VU2i1Gs0g85Sp"
          [] k = "X-BRING-CLIENT" -> "android"
          [] k = "X-BRING-APPLICATION" -> "bring"
          [] k = "X-BRING-COUNTRY" -> "DE"
          [] OTHER -> ""]

(***************************************************************************)
(* Python helpers: dictionaries are functions, a missing attribute is the  *)
(* empty sequence, None is the string "None".                              *)
(***************************************************************************)
None == "None"

\* the empty dict
EmptyDict == <<>>

\* d[k] = v on a dict
SetItem(d, k, v) == [x \in DOMAIN d \cup {k} |-> IF x = k THEN v ELSE d[x]]

\* {key: val for key, val in d.items() if key in keys}
Restrict(d, keys) ==
    IF DOMAIN d \cap keys = {} THEN EmptyDict ELSE [k \in DOMAIN d \cap keys |-> d[k]]

\* d.get(k, default)
Get(d, k, default) == IF k \in DOMAIN d THEN d[k] ELSE default

\* x or y on strings
Or(x, y) == IF x = None \/ x = "" THEN y ELSE x

Max(a, b) == IF a >= b THEN a ELSE b

Last(s) == s[Len(s)]

(***************************************************************************)
(* HTTP.  A response is an exception raised by the transport, or a status  *)
(* with a body; body says how the body decodes: "json" (an object with a   *)
(* "message" when it is an error body), "json_no_message", "not_json".     *)
(* data is the decoded object of a "json" body, etag the ETag header.      *)
(***************************************************************************)
NoData == <<>>

Raised(e) == [exc |-> e, status |-> 0, body |-> "not_json", etag |-> "", data |-> NoData]

Answer(st, b, d) == [exc |-> "none", status |-> st, body |-> b, etag |-> "", data |-> d]

WithETag(r, e) == [r EXCEPT !.etag = e]

\* failures every endpoint can see
Failures ==
    {Raised("TimeoutError"), Raised("ClientError")}
    \cup {Answer(401, b, NoData) : b \in {"json", "json_no_message", "not_json"}}
    \cup {Answer(404, "not_json", NoData)}

\* responses of an endpoint whose decoded success bodies are bodies
Responses(bodies) ==
    Failures \cup {Answer(200, "not_json", NoData)}
             \cup {Answer(200, "json", d) : d \in bodies}

\* a request as the transport sees it: of the headers passed, the Authorization
Request(method, url, headers, data) ==
    [method |-> method, url |-> url,
     authorization |-> Get(headers, "Authorization", ""), data |-> data]

\* r.raise_for_status() raises ClientResponseError, a ClientError
raise_for_status(r) == r.status >= 400

Ok(v) == [exc |-> "none", value |-> v]

Raise(e) == [exc |-> e, value |-> NoData]

(***************************************************************************)
(* Inputs.                                                                 *)
(***************************************************************************)
ListUuids == {"l1", "l2"}

BringAuthTokenRespone == {"access_token", "refresh_token", "token_type", "expires_in"}

\* bodies of POST v2/bringauth/token
TokenBodies ==
    {[access_token |-> "a2", refresh_token |-> "r2", token_type |-> "Bearer",
      expires_in |-> e, scope |-> "all"] : e \in 1..MaxExpiresIn}
    \cup {[access_token |-> "a2", refresh_token |-> "r2", token_type |-> "Bearer"]}

(***************************************************************************)
(* The Session                                                             *)
(***************************************************************************)
\* Bring.__init__
BringInit ==
    [mail |-> "EMAIL",
     password |-> "PASSWORD",
     uuid |-> "",
     public_uuid |-> "",
     headers |-> DEFAULT_HEADERS,
     refresh_token |-> "",
     expires_in |-> <<>>,
     user_locale |-> BRING_DEFAULT_LOCALE,
     user_list_settings |-> EmptyDict,
     translations |-> EmptyDict]

\* the expires_in setter
expires_in_set(s, e) == [s EXCEPT !.expires_in = <<now + e>>]

\* the expires_in getter
expires_in_get(s) ==
    IF s.expires_in = <<>> THEN Raise("AttributeError")
    ELSE Ok(Max(0, s.expires_in[1] - now))

\* the 401 block every request method repeats
unauthorized(r) ==
    IF r.body = "not_json" THEN "BringParseException"
    ELSE IF r.body = "json_no_message" THEN "KeyError"
    ELSE "BringAuthException"

Init ==
    /\ bring = BringInit
    /\ now = 0
    /\ op = "idle"
    /\ args = <<>>
    /\ sent = <<>>
    /\ got = <<>>
    /\ result = Ok(NoData)
    /\ tasks = <<>>

\* time.time() advances between two calls
Tick ==
    /\ op = "idle"
    /\ now < MaxTime
    /\ now' = now + 1
    /\ UNCHANGED <<bring, op, args, sent, got, result, tasks>>

\* what a call leaves behind: its name, arguments, requests, responses, outcome
Call(name, a, reqs, resps, res, s) ==
    /\ op' = name
    /\ args' = a
    /\ sent' = reqs
    /\ got' = resps
    /\ result' = res
    /\ bring' = s
    /\ UNCHANGED <<now, tasks>>

\* the caller has taken the outcome of its call and is ready for the next one
Resume ==
    /\ op # "idle"
    /\ op' = "idle"
    /\ args' = <<>>
    /\ sent' = <<>>
    /\ got' = <<>>
    /\ result' = Ok(NoData)
    /\ UNCHANGED <<bring, now, tasks>>

(***************************************************************************)
(* retrieve_new_access_token                                               *)
(***************************************************************************)
\* the outcome of the request and the decoding of its body
retrieve_new_access_token_response(r) ==
    IF r.exc = "TimeoutError" THEN Raise("BringRequestException")
    ELSE IF r.exc = "ClientError" THEN Raise("BringRequestException")
    ELSE IF r.status = 401 THEN Raise(unauthorized(r))
    ELSE IF raise_for_status(r) THEN Raise("BringRequestException")
    ELSE IF r.body = "not_json" THEN Raise("BringParseException")
    ELSE Ok(Restrict(r.data, BringAuthTokenRespone))

\* retrieve_new_access_token_store, were it to keep the refresh token of the answer
retrieve_new_access_token_store_keeping(s, data) ==
    IF ~ ({"token_type", "access_token"} \subseteq DOMAIN data) THEN s
    ELSE LET s1 == [s EXCEPT !.headers = SetItem(s.headers, "Authorization",
                                    data.token_type \o " " \o data.access_token),
                             !.refresh_token = Get(data, "refresh_token", @)]
         IN  IF "expires_in" \in DOMAIN data THEN expires_in_set(s1, data.expires_in)
             ELSE s1

\* the assignments after the request, up to the first missing key
retrieve_new_access_token_store(s, data) ==
    IF ~ ({"token_type", "access_token"} \subseteq DOMAIN data) THEN s
    ELSE LET s1 == [s EXCEPT !.headers = SetItem(s.headers, "Authorization",
                                    data.token_type \o " " \o data.access_token)]
         IN  IF "expires_in" \in DOMAIN data THEN expires_in_set(s1, data.expires_in)
             ELSE s1

retrieve_new_access_token_result(data) ==
    IF BringAuthTokenRespone \ {"refresh_token"} \subseteq DOMAIN data
    THEN Ok(data) ELSE Raise("KeyError")

retrieve_new_access_token ==
    /\ op = "idle"
    /\ \E refresh_token \in {None, "r2"} :
      \E r \in Responses(TokenBodies) :
        LET token == Or(refresh_token, bring.refresh_token)
            req == Request("POST", "v2/bringauth/token", bring.headers,
                           [grant_type |-> "refresh_token", refresh_token |-> token])
            res == retrieve_new_access_token_response(r)
        IN  Call("retrieve_new_access_token", [refresh_token |-> refresh_token],
                 <<req>>, <<r>>,
                 IF res.exc = "none" THEN retrieve_new_access_token_result(res.value)
                 ELSE res,
                 IF res.exc = "none"
                 THEN retrieve_new_access_token_store(bring, res.value)
                 ELSE bring)

(***************************************************************************)
(* The catalog translator.  A dictionary is the sequence of the            *)
(* <<catalog name, locale name>> pairs of its JSON object, in file order.  *)
(***************************************************************************)
\* locales/articles.<locale>.json as shipped with the package
LocaleFile(locale) ==
    CASE locale = "de-DE" -> << <<"Milch", "Milch">>, <<"Zucchetti", "Zucchini">> >>
      [] locale = "en-US" -> << <<"Milch", "Milk">>, <<"Zucchetti", "Zucchini">> >>
      [] OTHER -> << <<"Milch", "Milch">> >>

\* articles.<locale>.json as the static host serves it
RemoteFile(locale) == LocaleFile(locale) \o << <<"Rahm", "Cream">> >>

\* d.get(k, default) on a dictionary
RECURSIVE Lookup(_, _, _)
Lookup(d, k, default) ==
    IF d = <<>> THEN default
    ELSE IF Last(d)[1] = k THEN Last(d)[2]
    ELSE Lookup(SubSeq(d, 1, Len(d) - 1), k, default)

\* InverseLookup, were it to look the name up among the keys
InverseLookup_among_keys(d, v, default) == Lookup(d, v, default)

\* {value: key for key, value in d.items()}.get(v, default): the last key wins
RECURSIVE InverseLookup(_, _, _)
InverseLookup(d, v, default) ==
    IF d = <<>> THEN default
    ELSE IF Last(d)[2] = v THEN Last(d)[1]
    ELSE InverseLookup(SubSeq(d, 1, Len(d) - 1), v, default)

\* translate, were it to look the default locale up like any other locale
translate_default_looked_up(s, item_id, to_locale, from_locale) ==
    LET locale == Or(to_locale, from_locale)
    IN  IF locale = None \/ locale = "" THEN Raise("ValueError")
        ELSE IF locale \notin BRING_SUPPORTED_LOCALES THEN Raise("ValueError")
        ELSE IF locale \notin DOMAIN s.translations THEN Raise("BringTranslationException")
        ELSE IF ~ (to_locale = None \/ to_locale = "")
             THEN Ok(Lookup(s.translations[locale], item_id, item_id))
             ELSE Ok(InverseLookup(s.translations[locale], item_id, item_id))

\* translate, were the two directions exchanged
translate_exchanged(s, item_id, to_locale, from_locale) ==
    LET locale == Or(to_locale, from_locale)
    IN  IF locale = BRING_DEFAULT_LOCALE THEN Ok(item_id)
        ELSE IF locale = None \/ locale = "" THEN Raise("ValueError")
        ELSE IF locale \notin BRING_SUPPORTED_LOCALES THEN Raise("ValueError")
        ELSE IF locale \notin DOMAIN s.translations THEN Raise("BringTranslationException")
        ELSE IF ~ (to_locale = None \/ to_locale = "")
             THEN Ok(InverseLookup(s.translations[locale], item_id, item_id))
             ELSE Ok(Lookup(s.translations[locale], item_id, item_id))

\* translate, were it to leave out the check of the supported locales
translate_unchecked(s, item_id, to_locale, from_locale) ==
    LET locale == Or(to_locale, from_locale)
    IN  IF locale = BRING_DEFAULT_LOCALE THEN Ok(item_id)
        ELSE IF locale = None \/ locale = "" THEN Raise("ValueError")
        ELSE IF locale \notin DOMAIN s.translations THEN Raise("BringTranslationException")
        ELSE IF ~ (to_locale = None \/ to_locale = "")
             THEN Ok(Lookup(s.translations[locale], item_id, item_id))
             ELSE Ok(InverseLookup(s.translations[locale], item_id, item_id))

\* Bring.__translate
translate(s, item_id, to_locale, from_locale) ==
    LET locale == Or(to_locale, from_locale)
    IN  IF locale = BRING_DEFAULT_LOCALE THEN Ok(item_id)
        ELSE IF locale = None \/ locale = "" THEN Raise("ValueError")
        ELSE IF locale \notin BRING_SUPPORTED_LOCALES THEN Raise("ValueError")
        ELSE IF locale \notin DOMAIN s.translations THEN Raise("BringTranslationException")
        ELSE IF ~ (to_locale = None \/ to_locale = "")
             THEN Ok(Lookup(s.translations[locale], item_id, item_id))
             ELSE Ok(InverseLookup(s.translations[locale], item_id, item_id))

\* locale_of, were a list without listArticleLanguage to get the default locale
locale_of_default(s, list_uuid) ==
    IF list_uuid \in DOMAIN s.user_list_settings
    THEN Get(s.user_list_settings[list_uuid], "listArticleLanguage", BRING_DEFAULT_LOCALE)
    ELSE s.user_locale

\* Bring.__locale
locale_of(s, list_uuid) ==
    IF list_uuid \in DOMAIN s.user_list_settings
    THEN Get(s.user_list_settings[list_uuid], "listArticleLanguage", s.user_locale)
    ELSE s.user_locale

\* map_user_language_to_locale, were it to look at the language only
map_user_language_to_locale_by_language(user_locale) ==
    Get(MAP_LANG_TO_LOCALE, user_locale.language, BRING_DEFAULT_LOCALE)

\* Bring.map_user_language_to_locale
map_user_language_to_locale(user_locale) ==
    LET locale == user_locale.language \o "-" \o user_locale.country
    IN  IF locale \in BRING_SUPPORTED_LOCALES THEN locale
        ELSE Get(MAP_LANG_TO_LOCALE, user_locale.language, BRING_DEFAULT_LOCALE)

(***************************************************************************)
(* get_user_account                                                        *)
(***************************************************************************)
BringSyncCurrentUserResponse ==
    {"email", "emailVerified", "premiumConfiguration", "publicUserUuid",
     "userLocale", "userUuid", "name", "photoPath"}

\* bodies of GET v2/bringusers/{uuid}
AccountBodies ==
    {[userUuid |-> "u1", publicUserUuid |-> "p1", email |-> "EMAIL",
      userLocale |-> [language |-> l[1], country |-> l[2]]] :
        l \in {<<"de", "DE">>, <<"xx", "CH">>}}
    \cup {[userUuid |-> "u1", publicUserUuid |-> "p1", email |-> "EMAIL"]}

get_user_account_request(s) ==
    Request("GET", "v2/bringusers/" \o s.uuid, s.headers, NoData)

get_user_account_response(r) ==
    IF r.exc = "TimeoutError" THEN Raise("BringRequestException")
    ELSE IF r.exc = "ClientError" THEN Raise("BringRequestException")
    ELSE IF r.status = 401 THEN Raise(unauthorized(r))
    ELSE IF raise_for_status(r) THEN Raise("BringRequestException")
    ELSE IF r.body = "not_json" THEN Raise("BringParseException")
    ELSE Ok(Restrict(r.data, BringSyncCurrentUserResponse))

(***************************************************************************)
(* get_all_user_settings and __load_user_list_settings                     *)
(***************************************************************************)
BringUserSettingsEntry == {"key", "value"}
BringUserListSettingEntry == {"listUuid", "usersettings"}

Setting(k, v) == [key |-> k, value |-> v]

ListSetting(l, settings) == [listUuid |-> l, usersettings |-> settings]

\* bodies of GET bringusersettings/{uuid}
SettingsBodies ==
    {[usersettings |-> <<Setting("autoPush", "ON")>>, userlistsettings |-> uls] :
        uls \in {<<>>,
                 <<ListSetting("l1", <<Setting("listSectionOrder", "[]"),
                                       Setting("listArticleLanguage", "en-US")>>)>>,
                 <<ListSetting("l1", <<Setting("listSectionOrder", "[]")>>),
                   ListSetting("l2", <<Setting("listArticleLanguage", "xx-XX")>>)>>}}
    \cup {[usersettings |-> <<Setting("autoPush", "ON")>>]}

get_all_user_settings_request(s) ==
    Request("GET", "bringusersettings/" \o s.uuid, s.headers, NoData)

\* the entries of a list, each cut down to the known keys
Entries(seq, keys) == [i \in 1..Len(seq) |-> Restrict(seq[i], keys)]

get_all_user_settings_response(r) ==
    IF r.exc = "TimeoutError" THEN Raise("BringRequestException")
    ELSE IF r.exc = "ClientError" THEN Raise("BringRequestException")
    ELSE IF r.status = 401 THEN Raise(unauthorized(r))
    ELSE IF raise_for_status(r) THEN Raise("BringRequestException")
    ELSE IF r.body = "not_json" THEN Raise("BringParseException")
    ELSE IF "usersettings" \notin DOMAIN r.data THEN Raise("KeyError")
    ELSE IF "userlistsettings" \notin DOMAIN r.data THEN Raise("KeyError")
    ELSE IF \E i \in 1..Len(r.data.userlistsettings) :
                "usersettings" \notin DOMAIN r.data.userlistsettings[i]
         THEN Raise("KeyError")
    ELSE Ok([usersettings |-> Entries(r.data.usersettings, BringUserSettingsEntry),
             userlistsettings |->
                Entries([i \in 1..Len(r.data.userlistsettings) |->
                            [r.data.userlistsettings[i] EXCEPT !.usersettings =
                                Entries(@, BringUserSettingsEntry)]],
                        BringUserListSettingEntry)])

\* {setting["key"]: setting["value"] for setting in settings}
RECURSIVE SettingsDict(_)
SettingsDict(settings) ==
    IF settings = <<>> THEN EmptyDict
    ELSE SetItem(SettingsDict(SubSeq(settings, 1, Len(settings) - 1)),
                 Last(settings).key, Last(settings).value)

\* {entry["listUuid"]: {...} for entry in userlistsettings}
RECURSIVE ListSettingsDict(_)
ListSettingsDict(uls) ==
    IF uls = <<>> THEN EmptyDict
    ELSE SetItem(ListSettingsDict(SubSeq(uls, 1, Len(uls) - 1)),
                 Last(uls).listUuid, SettingsDict(Last(uls).usersettings))

\* Bring.__load_user_list_settings: every failure becomes a translation error
load_user_list_settings(r) ==
    LET res == get_all_user_settings_response(r)
    IN  IF res.exc # "none" THEN Raise("BringTranslationException")
        ELSE IF \E i \in 1..Len(res.value.userlistsettings) :
                    \/ "listUuid" \notin DOMAIN res.value.userlistsettings[i]
                    \/ \E j \in 1..Len(res.value.userlistsettings[i].usersettings) :
                          ~ ({"key", "value"} \subseteq
                               DOMAIN res.value.userlistsettings[i].usersettings[j])
             THEN Raise("BringTranslationException")
        ELSE Ok(ListSettingsDict(res.value.userlistsettings))

(***************************************************************************)
(* __load_article_translations                                             *)
(***************************************************************************)
\* the order in which the settings response names the lists
ListOrder == <<"l1", "l2">>

\* list(dict.fromkeys(s)): s without its repeated entries
RECURSIVE Distinct(_)
Distinct(s) ==
    IF s = <<>> THEN <<>>
    ELSE LET front == Distinct(SubSeq(s, 1, Len(s) - 1))
         IN  IF \E i \in 1..Len(front) : front[i] = Last(s) THEN front
             ELSE Append(front, Last(s))

\* locales_required, were the locale of the user left out
locales_required_lists_only(s) ==
    Distinct([i \in 1..Len(SelectSeq(ListOrder, LAMBDA l : l \in DOMAIN s.user_list_settings)) |->
                Get(s.user_list_settings[
                        SelectSeq(ListOrder, LAMBDA l : l \in DOMAIN s.user_list_settings)[i]],
                    "listArticleLanguage", s.user_locale)])

\* the locales of the known lists, then the user's
locales_required(s) ==
    Distinct([i \in 1..Len(SelectSeq(ListOrder, LAMBDA l : l \in DOMAIN s.user_list_settings)) |->
                Get(s.user_list_settings[
                        SelectSeq(ListOrder, LAMBDA l : l \in DOMAIN s.user_list_settings)[i]],
                    "listArticleLanguage", s.user_locale)]
             \o <<s.user_locale>>)

\* the locales a dictionary is loaded for
locales_loaded(s) ==
    {l \in {locales_required(s)[i] : i \in 1..Len(locales_required(s))} :
        l # BRING_DEFAULT_LOCALE /\ l \in BRING_SUPPORTED_LOCALES}

\* what the static host can answer to GET articles.<locale>.json
DownloadKinds == {"timeout", "not_found", "not_json", "remote"}

DownloadResponse(locale, kind) ==
    CASE kind = "timeout" -> Raised("TimeoutError")
      [] kind = "not_found" -> Answer(404, "not_json", NoData)
      [] kind = "not_json" -> Answer(200, "not_json", NoData)
      [] OTHER -> Answer(200, "json", RemoteFile(locale))

download_request(locale) ==
    Request("GET", "locale/articles." \o locale \o ".json", EmptyDict, NoData)

download_response(r) ==
    IF r.exc = "TimeoutError" THEN Raise("BringRequestException")
    ELSE IF r.exc = "ClientError" THEN Raise("BringRequestException")
    ELSE IF raise_for_status(r) THEN Raise("BringRequestException")
    ELSE IF r.body = "not_json" THEN Raise("BringParseException")
    ELSE Ok(r.data)

\* the loop over locales_required: missing are the locales whose file cannot be
\* opened, dl the answer of the static host for each of them
RECURSIVE load_locales(_, _, _, _)
load_locales(locales, missing, dl, acc) ==
    IF locales = <<>> \/ acc.exc # "none" THEN acc
    ELSE LET locale == Head(locales)
             rest == Tail(locales)
         IN  IF locale = BRING_DEFAULT_LOCALE \/ locale \notin BRING_SUPPORTED_LOCALES
             THEN load_locales(rest, missing, dl, acc)
             ELSE IF locale \notin missing
             THEN load_locales(rest, missing, dl,
                     [acc EXCEPT !.value = SetItem(@, locale, LocaleFile(locale))])
             ELSE LET r == DownloadResponse(locale, dl[locale])
                      res == download_response(r)
                      acc1 == [acc EXCEPT !.sent = Append(@, download_request(locale)),
                                          !.got = Append(@, r)]
                  IN  IF res.exc # "none" THEN [acc1 EXCEPT !.exc = res.exc]
                      ELSE load_locales(rest, missing, dl,
                              [acc1 EXCEPT !.value = SetItem(@, locale, res.value)])

\* load_article_translations, were only the locale of the user loaded
load_article_translations_user_only(s, missing, dl) ==
    load_locales(<<s.user_locale>>, missing, dl,
                 [exc |-> "none", value |-> EmptyDict, sent |-> <<>>, got |-> <<>>])

\* Bring.__load_article_translations
load_article_translations(s, missing, dl) ==
    load_locales(locales_required(s), missing, dl,
                 [exc |-> "none", value |-> EmptyDict, sent |-> <<>>, got |-> <<>>])

(***************************************************************************)
(* login                                                                   *)
(***************************************************************************)
BringAuthResponse ==
    {"uuid", "publicUuid", "bringListUUID", "access_token", "refresh_token",
     "token_type", "expires_in", "photoPath", "email", "name"}

\* bodies of POST v2/bringauth
AuthBodies ==
    {[uuid |-> "u1", publicUuid |-> "p1", access_token |-> "a1", refresh_token |-> "r1",
      token_type |-> "Bearer", expires_in |-> e, email |-> "EMAIL", extra |-> "x"] :
        e \in 1..MaxExpiresIn}
    \cup {[uuid |-> "u1", access_token |-> "a1", refresh_token |-> "r1",
           token_type |-> "Bearer", expires_in |-> MaxExpiresIn],
          [uuid |-> "u1", publicUuid |-> "p1", access_token |-> "a1",
           token_type |-> "Bearer", expires_in |-> 1]}

login_request(s) ==
    Request("POST", "v2/bringauth", EmptyDict, [email |-> s.mail, password |-> s.password])

\* the request and the decoding of its body
login_response(r) ==
    IF r.exc = "TimeoutError" THEN Raise("BringRequestException")
    ELSE IF r.exc = "ClientError" THEN Raise("BringRequestException")
    ELSE IF r.status = 401 THEN Raise(unauthorized(r))
    ELSE IF r.status = 400 THEN Raise("BringAuthException")
    ELSE IF raise_for_status(r) THEN Raise("BringRequestException")
    ELSE IF r.body = "not_json" THEN Raise("BringParseException")
    ELSE Ok(Restrict(r.data, BringAuthResponse))

\* the source line of the first assignment that meets a missing key, 0 if none does
login_store_fails(data) ==
    IF "uuid" \notin DOMAIN data THEN 171
    ELSE IF ~ ({"token_type", "access_token"} \subseteq DOMAIN data) THEN 174
    ELSE IF "refresh_token" \notin DOMAIN data THEN 175
    ELSE IF "expires_in" \notin DOMAIN data THEN 176
    ELSE 0

\* the assignments from the auth response, up to the first missing key
login_store(s, data) ==
    LET fails == login_store_fails(data)
        done(line) == fails = 0 \/ line < fails
        s1 == IF done(171) THEN [s EXCEPT !.uuid = data.uuid] ELSE s
        s2 == IF done(172) THEN [s1 EXCEPT !.public_uuid = Get(data, "publicUuid", "")] ELSE s1
        s3 == IF done(173)
              THEN [s2 EXCEPT !.headers = SetItem(@, "X-BRING-USER-UUID", s2.uuid)] ELSE s2
        s4 == IF done(174)
              THEN [s3 EXCEPT !.headers = SetItem(@, "Authorization",
                                    data.token_type \o " " \o data.access_token)]
              ELSE s3
        s5 == IF done(175) THEN [s4 EXCEPT !.refresh_token = data.refresh_token] ELSE s4
    IN  IF done(176) THEN expires_in_set(s5, data.expires_in) ELSE s5

\* the assignments from the account
login_locale(s, account) ==
    [s EXCEPT !.headers = SetItem(@, "X-BRING-COUNTRY", account.userLocale.country),
              !.user_locale = map_user_language_to_locale(account.userLocale)]

\* login, from the settings request on
login_settings(data, s2, reqs, resps) ==
    \E r3 \in Responses(SettingsBodies) :
        LET settings == load_user_list_settings(r3)
            s3 == [s2 EXCEPT !.user_list_settings = settings.value]
            reqs3 == Append(reqs, get_all_user_settings_request(s2))
            resps3 == Append(resps, r3)
        IN  IF settings.exc # "none"
            THEN Call("login", <<>>, reqs3, resps3, settings, s2)
            ELSE \E missing \in SUBSET locales_loaded(s3) :
                 \E dl \in [missing -> DownloadKinds] :
                    LET t == load_article_translations(s3, missing, dl)
                    IN  Call("login", <<>>, reqs3 \o t.sent, resps3 \o t.got,
                             IF t.exc # "none" THEN Raise(t.exc) ELSE Ok(data),
                             IF t.exc # "none" THEN s3
                             ELSE [s3 EXCEPT !.translations = t.value])

\* login, from the account request on
login_account(data, s1, reqs, resps) ==
    \E r2 \in Responses(AccountBodies) :
        LET account == get_user_account_response(r2)
            reqs2 == Append(reqs, get_user_account_request(s1))
            resps2 == Append(resps, r2)
        IN  IF account.exc # "none"
            THEN Call("login", <<>>, reqs2, resps2, account, s1)
            ELSE IF "userLocale" \notin DOMAIN account.value
            THEN Call("login", <<>>, reqs2, resps2, Raise("KeyError"), s1)
            ELSE login_settings(data, login_locale(s1, account.value), reqs2, resps2)

\* Bring.login
login ==
    /\ op = "idle"
    /\ \E r1 \in Responses(AuthBodies) \cup {Answer(400, "not_json", NoData)} :
        LET auth == login_response(r1)
            reqs == <<login_request(bring)>>
        IN  IF auth.exc # "none"
            THEN Call("login", <<>>, reqs, <<r1>>, auth, bring)
            ELSE IF login_store_fails(auth.value) # 0
            THEN Call("login", <<>>, reqs, <<r1>>, Raise("KeyError"),
                      login_store(bring, auth.value))
            ELSE login_account(auth.value, login_store(bring, auth.value), reqs, <<r1>>)

(***************************************************************************)
(* The read requests                                                       *)
(***************************************************************************)
\* a GET without a decodable body: 304 Not Modified
NotModified == Answer(304, "not_json", NoData)

BringListResponse == {"lists"}

\* bodies of GET bringusers/{uuid}/lists
ListsBodies ==
    {[lists |-> <<[listUuid |-> "l1", name |-> "Einkauf", theme |-> "home"]>>,
      extra |-> "x"]}

load_lists_response(r) ==
    IF r.exc = "TimeoutError" THEN Raise("BringRequestException")
    ELSE IF r.exc = "ClientError" THEN Raise("BringRequestException")
    ELSE IF r.status = 401 THEN Raise(unauthorized(r))
    ELSE IF raise_for_status(r) THEN Raise("BringRequestException")
    ELSE IF r.body = "not_json" THEN Raise("BringParseException")
    ELSE Ok(Restrict(r.data, BringListResponse))

\* Bring.load_lists
load_lists ==
    /\ op = "idle"
    /\ \E r \in Responses(ListsBodies) \cup {NotModified} :
        Call("load_lists", <<>>,
             <<Request("GET", "bringusers/" \o bring.uuid \o "/lists", bring.headers, NoData)>>,
             <<r>>, load_lists_response(r), bring)

Item(name) == [uuid |-> "i1", itemId |-> name, specification |-> ""]

\* bodies of GET v2/bringlists/{list_uuid}
ItemsBodies(list_uuid) ==
    {[uuid |-> list_uuid, status |-> "REGISTERED",
      items |-> [purchase |-> <<Item("Milch")>>, recently |-> <<Item("Zucchetti")>>]],
     [uuid |-> list_uuid, status |-> "REGISTERED",
      items |-> [purchase |-> <<>>, recently |-> <<>>]],
     [uuid |-> list_uuid, status |-> "REGISTERED"]}

\* translate_items, were it to translate from the locale to the catalog
translate_items_to_catalog(s, items, locale) ==
    [i \in 1..Len(items) |->
        [items[i] EXCEPT !.itemId = translate(s, items[i].itemId, None, locale).value]]

\* the items of one section with their itemId translated to the locale
translate_items(s, items, locale) ==
    [i \in 1..Len(items) |->
        [items[i] EXCEPT !.itemId = translate(s, items[i].itemId, locale, None).value]]

\* the decoding of the body of get_list
get_list_decode(s, list_uuid, data) ==
    IF "items" \notin DOMAIN data THEN Raise("BringParseException")
    ELSE IF ~ ({"purchase", "recently"} \subseteq DOMAIN data.items)
         THEN Raise("BringParseException")
    ELSE LET all == data.items.purchase \o data.items.recently
             locale == locale_of(s, list_uuid)
         IN  IF \E i \in 1..Len(all) : "itemId" \notin DOMAIN all[i]
             THEN Raise("BringParseException")
             ELSE IF all # <<>> /\ translate(s, all[1].itemId, locale, None).exc # "none"
             THEN Raise(translate(s, all[1].itemId, locale, None).exc)
             ELSE IF ~ ({"uuid", "status"} \subseteq DOMAIN data)
             THEN Raise("BringParseException")
             ELSE Ok([uuid |-> data.uuid, status |-> data.status,
                      purchase |-> translate_items(s, data.items.purchase, locale),
                      recently |-> translate_items(s, data.items.recently, locale)])

get_list_response(s, list_uuid, r) ==
    IF r.exc = "TimeoutError" THEN Raise("BringRequestException")
    ELSE IF r.exc = "ClientError" THEN Raise("BringRequestException")
    ELSE IF r.status = 401 THEN Raise(unauthorized(r))
    ELSE IF raise_for_status(r) THEN Raise("BringRequestException")
    ELSE IF r.body = "not_json" THEN Raise("BringParseException")
    ELSE get_list_decode(s, list_uuid, r.data)

\* Bring.get_list
get_list ==
    /\ op = "idle"
    /\ \E list_uuid \in ListUuids :
      \E r \in Responses(ItemsBodies(list_uuid)) \cup {NotModified} :
        Call("get_list", [list_uuid |-> list_uuid],
             <<Request("GET", "v2/bringlists/" \o list_uuid, bring.headers, NoData)>>,
             <<r>>, get_list_response(bring, list_uuid, r), bring)

BringListItemDetails ==
    {"uuid", "itemId", "listUuid", "userIconItemId", "userSectionId", "assignedTo",
     "imageUrl"}

\* bodies of GET bringlists/{list_uuid}/details
DetailsBodies(list_uuid) ==
    {<<[uuid |-> "i1", itemId |-> "Milch", listUuid |-> list_uuid,
        userIconItemId |-> "Milch", extra |-> "x"]>>}

\* the answers to GET bringlists/{list_uuid}/details: any of them may carry an ETag
DetailsResponses(list_uuid) ==
    Responses(DetailsBodies(list_uuid)) \cup {NotModified}
    \cup {WithETag(Answer(200, "json", d), "e1") : d \in DetailsBodies(list_uuid)}

get_all_item_details_response(r) ==
    IF r.exc = "TimeoutError" THEN Raise("BringRequestException")
    ELSE IF r.exc = "ClientError" THEN Raise("BringRequestException")
    ELSE IF r.status = 401 THEN Raise(unauthorized(r))
    ELSE IF raise_for_status(r) THEN Raise("BringRequestException")
    ELSE IF r.body = "not_json" THEN Raise("BringParseException")
    ELSE Ok(Entries(r.data, BringListItemDetails))

get_all_item_details_request(s, list_uuid) ==
    Request("GET", "bringlists/" \o list_uuid \o "/details", s.headers, NoData)

\* Bring.get_all_item_details; a caller that polls calls it again with the last
\* outcome still in hand
get_all_item_details ==
    /\ op \in {"idle", "get_all_item_details"}
    /\ \E list_uuid \in {"l1"} :
      \E r \in DetailsResponses(list_uuid) :
        Call("get_all_item_details", [list_uuid |-> list_uuid],
             <<get_all_item_details_request(bring, list_uuid)>>,
             <<r>>, get_all_item_details_response(r), bring)

\* Bring.get_all_user_settings
get_all_user_settings ==
    /\ op = "idle"
    /\ \E r \in Responses(SettingsBodies) \cup {NotModified} :
        Call("get_all_user_settings", <<>>, <<get_all_user_settings_request(bring)>>,
             <<r>>, get_all_user_settings_response(r), bring)

\* Bring.get_user_account
get_user_account ==
    /\ op = "idle"
    /\ \E r \in Responses(AccountBodies) \cup {NotModified} :
        Call("get_user_account", <<>>, <<get_user_account_request(bring)>>,
             <<r>>, get_user_account_response(r), bring)

(***************************************************************************)
(* batch_update_list                                                       *)
(***************************************************************************)
\* BringItemOperation
ADD == "TO_PURCHASE"
COMPLETE == "TO_RECENTLY"
REMOVE == "REMOVE"

BringItem(name, spec, item_uuid) == [itemId |-> name, spec |-> spec, uuid |-> item_uuid]

\* the items argument: one item (a dict) or a list of items
BatchItems ==
    {[dict |-> TRUE, value |-> BringItem("Milk", "low fat", "")],
     [dict |-> FALSE,
      value |-> <<[BringItem("Zucchini", "", "i1") EXCEPT !.uuid = "i1"] @@
                    [operation |-> REMOVE],
                  BringItem("Milch", "", "")>>]}

base_params ==
    [accuracy |-> "0.0", altitude |-> "0.0", latitude |-> "0.0", longitude |-> "0.0"]

\* change, were the operation of the call to win over the operation of the item
change_by_call(s, list_uuid, item, operation) ==
    [itemId |-> translate(s, item.itemId, None, locale_of(s, list_uuid)).value,
     operation |-> operation] @@ item @@ base_params

\* one record of "changes"
change(s, list_uuid, item, operation) ==
    [itemId |-> translate(s, item.itemId, None, locale_of(s, list_uuid)).value,
     operation |-> Get(item, "operation", operation)] @@ item @@ base_params

\* batch_update_list_payload, were a name that cannot be translated sent as it is
batch_update_list_payload_lenient(s, list_uuid, items, operation) ==
    LET oper == IF operation = None THEN ADD ELSE operation
        list == IF items.dict THEN <<items.value>> ELSE items.value
        name(item) == LET t == translate(s, item.itemId, None, locale_of(s, list_uuid))
                      IN  IF t.exc = "none" THEN t.value ELSE item.itemId
    IN  IF \E i \in 1..Len(list) : "itemId" \notin DOMAIN list[i] THEN Raise("KeyError")
        ELSE Ok([changes |-> [i \in 1..Len(list) |->
                                [itemId |-> name(list[i]),
                                 operation |-> Get(list[i], "operation", oper)]
                                    @@ list[i] @@ base_params],
                 sender |-> ""])

\* the payload, or the exception its construction raises
batch_update_list_payload(s, list_uuid, items, operation) ==
    LET oper == IF operation = None THEN ADD ELSE operation
        list == IF items.dict THEN <<items.value>> ELSE items.value
    IN  IF list # <<>> /\ "itemId" \notin DOMAIN list[1] THEN Raise("KeyError")
        ELSE IF list # <<>>
                /\ translate(s, list[1].itemId, None, locale_of(s, list_uuid)).exc # "none"
        THEN Raise(translate(s, list[1].itemId, None, locale_of(s, list_uuid)).exc)
        ELSE IF \E i \in 1..Len(list) : "itemId" \notin DOMAIN list[i] THEN Raise("KeyError")
        ELSE Ok([changes |-> [i \in 1..Len(list) |-> change(s, list_uuid, list[i], oper)],
                 sender |-> ""])

\* the outcome of a request whose answer is returned undecoded
write_response(r) ==
    IF r.exc = "TimeoutError" THEN Raise("BringRequestException")
    ELSE IF r.exc = "ClientError" THEN Raise("BringRequestException")
    ELSE IF r.status = 401 THEN Raise(unauthorized(r))
    ELSE IF raise_for_status(r) THEN Raise("BringRequestException")
    ELSE Ok(r)

\* the answers to a request whose answer is returned undecoded
WriteResponses == Failures \cup {Answer(200, "json", NoData)}

\* Bring.batch_update_list
batch_update_list ==
    /\ op = "idle"
    /\ \E list_uuid \in ListUuids, items \in BatchItems, operation \in {None, COMPLETE} :
        LET payload == batch_update_list_payload(bring, list_uuid, items, operation)
            a == [list_uuid |-> list_uuid, items |-> items, operation |-> operation]
        IN  IF payload.exc # "none"
            THEN Call("batch_update_list", a, <<>>, <<>>, payload, bring)
            ELSE \E r \in WriteResponses :
                    Call("batch_update_list", a,
                         <<Request("PUT", "v2/bringlists/" \o list_uuid \o "/items",
                                   bring.headers, payload.value)>>,
                         <<r>>, write_response(r), bring)

(***************************************************************************)
(* save_item, update_item, remove_item, complete_item                      *)
(***************************************************************************)
\* the messages of the BringRequestException each wrapper raises
SavingFailed(a) ==
    "Saving item " \o a.item_name \o " (" \o a.specification \o ") to list "
        \o a.list_uuid \o " failed due to request exception."

UpdatingFailed(a) ==
    "Updating item " \o a.item_name \o " (" \o a.specification \o ") in list "
        \o a.list_uuid \o " failed due to request exception."

RemovingFailed(a) ==
    "Removing item " \o a.item_name \o " from list "
        \o a.list_uuid \o " failed due to request exception."

CompletingFailed(a) ==
    "Completing item " \o a.item_name \o " from list "
        \o a.list_uuid \o " failed due to request exception."

\* reraise, were the message the same for every wrapper
reraise_one_message(res, message) ==
    IF res.exc = "BringRequestException"
    THEN [exc |-> "BringRequestException",
          value |-> "Batch operation failed due to request exception."]
    ELSE res

\* except BringRequestException as e: raise BringRequestException(message) from e
reraise(res, message) ==
    IF res.exc = "BringRequestException"
    THEN [exc |-> "BringRequestException", value |-> message]
    ELSE res

\* the arguments of the wrappers
ItemCalls ==
    {[list_uuid |-> "l1", item_name |-> "Milk", specification |-> spec, item_uuid |-> ""] :
        spec \in {"", "low fat"}}

\* await self.batch_update_list(list_uuid, data, operation) inside a wrapper
item_call(name, a, data, operation, message) ==
    LET payload == batch_update_list_payload(bring, a.list_uuid,
                                             [dict |-> TRUE, value |-> data], operation)
    IN  IF payload.exc # "none"
        THEN Call(name, a, <<>>, <<>>, payload, bring)
        ELSE \E r \in WriteResponses :
                Call(name, a,
                     <<Request("PUT", "v2/bringlists/" \o a.list_uuid \o "/items",
                               bring.headers, payload.value)>>,
                     <<r>>, reraise(write_response(r), message), bring)

\* Bring.save_item
save_item ==
    /\ op = "idle"
    /\ \E a \in ItemCalls :
         item_call("save_item", a, BringItem(a.item_name, a.specification, a.item_uuid),
                   ADD, SavingFailed(a))

\* Bring.update_item
update_item ==
    /\ op = "idle"
    /\ \E a \in ItemCalls :
         item_call("update_item", a, BringItem(a.item_name, a.specification, a.item_uuid),
                   ADD, UpdatingFailed(a))

\* Bring.remove_item, which takes no specification
remove_item ==
    /\ op = "idle"
    /\ \E a \in {[list_uuid |-> c.list_uuid, item_name |-> c.item_name,
                   item_uuid |-> c.item_uuid] : c \in ItemCalls} :
         item_call("remove_item", a, BringItem(a.item_name, "", a.item_uuid),
                   REMOVE, RemovingFailed(a))

\* Bring.complete_item
complete_item ==
    /\ op = "idle"
    /\ \E a \in ItemCalls :
         item_call("complete_item", a, BringItem(a.item_name, a.specification, a.item_uuid),
                   COMPLETE, CompletingFailed(a))

(***************************************************************************)
(* notify                                                                  *)
(***************************************************************************)
BringNotificationType ==
    {"GOING_SHOPPING", "CHANGED_LIST", "SHOPPING_DONE", "URGENT_MESSAGE",
     "LIST_ACTIVITY_STREAM_REACTION"}

\* the notification_type argument: a member of the enum, a member of another
\* enum, or a plain string
NotificationTypes ==
    {[type |-> "BringNotificationType", value |-> "GOING_SHOPPING"],
     [type |-> "BringNotificationType", value |-> "URGENT_MESSAGE"],
     [type |-> "WrongEnum", value |-> "UNKNOWN"],
     [type |-> "str", value |-> "STRING"]}

\* notify_payload, were the item name of an urgent message not checked
notify_payload_unchecked(s, notification_type, item_name) ==
    IF notification_type.type = "str" THEN Raise("AttributeError")
    ELSE IF notification_type.type # "BringNotificationType" THEN Raise("TypeError")
    ELSE Ok([arguments |-> IF notification_type.value = "URGENT_MESSAGE"
                           THEN <<item_name>> ELSE <<>>,
             listNotificationType |-> notification_type.value,
             senderPublicUserUuid |-> s.public_uuid])

\* the payload, or the exception its construction raises
notify_payload(s, notification_type, item_name) ==
    IF notification_type.type = "str" THEN Raise("AttributeError")
    ELSE IF notification_type.type # "BringNotificationType" THEN Raise("TypeError")
    ELSE IF notification_type.value = "URGENT_MESSAGE" /\ (item_name = None \/ item_name = "")
    THEN Raise("ValueError")
    ELSE Ok([arguments |-> IF notification_type.value = "URGENT_MESSAGE"
                           THEN <<item_name>> ELSE <<>>,
             listNotificationType |-> notification_type.value,
             senderPublicUserUuid |-> s.public_uuid])

\* Bring.notify
notify ==
    /\ op = "idle"
    /\ \E notification_type \in NotificationTypes, item_name \in {None, "", "Milch"} :
        LET payload == notify_payload(bring, notification_type, item_name)
            a == [list_uuid |-> "l1", notification_type |-> notification_type,
                  item_name |-> item_name]
        IN  IF payload.exc # "none"
            THEN Call("notify", a, <<>>, <<>>, payload, bring)
            ELSE \E r \in WriteResponses :
                    Call("notify", a,
                         <<Request("POST", "v2/bringnotifications/lists/l1",
                                   bring.headers, payload.value)>>,
                         <<r>>, write_response(r), bring)

(***************************************************************************)
(* does_user_exist                                                         *)
(***************************************************************************)
\* does_user_exist_response, were a 404 handled like any other error status
does_user_exist_response_no_404(r) ==
    IF r.exc = "TimeoutError" THEN Raise("BringRequestException")
    ELSE IF r.exc = "ClientError" THEN Raise("BringEMailInvalidException")
    ELSE IF raise_for_status(r) THEN Raise("BringEMailInvalidException")
    ELSE Ok(TRUE)

\* the outcome of the request of does_user_exist
does_user_exist_response(r) ==
    IF r.exc = "TimeoutError" THEN Raise("BringRequestException")
    ELSE IF r.exc = "ClientError" THEN Raise("BringEMailInvalidException")
    ELSE IF r.status = 404 THEN Raise("BringUserUnknownException")
    ELSE IF raise_for_status(r) THEN Raise("BringEMailInvalidException")
    ELSE Ok(TRUE)

\* Bring.does_user_exist
does_user_exist ==
    /\ op = "idle"
    /\ \E mail \in {None, "", "OTHER"} :
        LET m == Or(mail, bring.mail)
            a == [mail |-> mail]
        IN  IF m = ""
            THEN Call("does_user_exist", a, <<>>, <<>>, Raise("ValueError"), bring)
            ELSE \E r \in WriteResponses :
                    Call("does_user_exist", a,
                         <<Request("GET", "bringusers", bring.headers, [email |-> m])>>,
                         <<r>>, does_user_exist_response(r), bring)

(***************************************************************************)
(* set_list_article_language                                               *)
(***************************************************************************)
\* the language arguments: a supported locale and an unsupported one
ArticleLanguages == {"en-US", "xx-XX"}

set_list_article_language_request(s, list_uuid, language) ==
    Request("POST",
            "bringusersettings/" \o s.uuid \o "/" \o list_uuid \o "/listArticleLanguage",
            s.headers, [value |-> language])

\* the outcome of the POST; a 401 raises without a look at the body
set_list_article_language_response(r) ==
    IF r.exc = "TimeoutError" THEN Raise("BringRequestException")
    ELSE IF r.exc = "ClientError" THEN Raise("BringRequestException")
    ELSE IF r.status = 401 THEN Raise("BringAuthException")
    ELSE IF raise_for_status(r) THEN Raise("BringRequestException")
    ELSE Ok(r)

\* set_list_article_language_reload, were the dictionaries loaded for the settings
\* the session had before the call
set_list_article_language_reload_stale(a, r, reqs, resps) ==
    \E r2 \in Responses(SettingsBodies) :
        LET settings == load_user_list_settings(r2)
            s2 == [bring EXCEPT !.user_list_settings = settings.value]
            reqs2 == Append(reqs, get_all_user_settings_request(bring))
            resps2 == Append(resps, r2)
        IN  IF settings.exc # "none"
            THEN Call("set_list_article_language", a, reqs2, resps2, settings, bring)
            ELSE \E missing \in SUBSET locales_loaded(bring) :
                 \E dl \in [missing -> DownloadKinds] :
                    LET t == load_article_translations(bring, missing, dl)
                    IN  Call("set_list_article_language", a,
                             reqs2 \o t.sent, resps2 \o t.got,
                             IF t.exc # "none" THEN Raise(t.exc) ELSE Ok(r),
                             IF t.exc # "none" THEN s2
                             ELSE [s2 EXCEPT !.translations = t.value])

\* the two assignments after the POST: the settings, then the dictionaries
set_list_article_language_reload(a, r, reqs, resps) ==
    \E r2 \in Responses(SettingsBodies) :
        LET settings == load_user_list_settings(r2)
            s2 == [bring EXCEPT !.user_list_settings = settings.value]
            reqs2 == Append(reqs, get_all_user_settings_request(bring))
            resps2 == Append(resps, r2)
        IN  IF settings.exc # "none"
            THEN Call("set_list_article_language", a, reqs2, resps2, settings, bring)
            ELSE \E missing \in SUBSET locales_loaded(s2) :
                 \E dl \in [missing -> DownloadKinds] :
                    LET t == load_article_translations(s2, missing, dl)
                    IN  Call("set_list_article_language", a,
                             reqs2 \o t.sent, resps2 \o t.got,
                             IF t.exc # "none" THEN Raise(t.exc) ELSE Ok(r),
                             IF t.exc # "none" THEN s2
                             ELSE [s2 EXCEPT !.translations = t.value])

\* Bring.set_list_article_language
set_list_article_language ==
    /\ op = "idle"
    /\ \E list_uuid \in {"l1"}, language \in ArticleLanguages :
        LET a == [list_uuid |-> list_uuid, language |-> language]
            req == set_list_article_language_request(bring, list_uuid, language)
        IN  IF language \notin BRING_SUPPORTED_LOCALES
            THEN Call("set_list_article_language", a, <<>>, <<>>, Raise("ValueError"), bring)
            ELSE \E r \in WriteResponses :
                    IF set_list_article_language_response(r).exc # "none"
                    THEN Call("set_list_article_language", a, <<req>>, <<r>>,
                              set_list_article_language_response(r), bring)
                    ELSE set_list_article_language_reload(a, r, <<req>>, <<r>>)

Next ==
    \/ Tick
    \/ Resume
    \/ login
    \/ retrieve_new_access_token
    \/ load_lists
    \/ get_list
    \/ get_all_item_details
    \/ get_all_user_settings
    \/ get_user_account
    \/ batch_update_list
    \/ save_item
    \/ update_item
    \/ remove_item
    \/ complete_item
    \/ notify
    \/ does_user_exist
    \/ set_list_article_language

Spec == Init /\ [][Next]_vars

(***************************************************************************)
(* The client constructed with or without a mail address, on which login   *)
(* and does_user_exist are called.                                         *)
(***************************************************************************)
InitUser ==
    /\ bring \in {BringInit, [BringInit EXCEPT !.mail = ""]}
    /\ now = 0
    /\ op = "idle"
    /\ args = <<>>
    /\ sent = <<>>
    /\ got = <<>>
    /\ result = Ok(NoData)
    /\ tasks = <<>>

NextUser ==
    \/ Resume
    \/ login
    \/ does_user_exist

SpecUser == InitUser /\ [][NextUser]_vars

(***************************************************************************)
(* The translator and the locale functions on their own: the session is    *)
(* any session a login can leave behind, the calls are the ones the tests  *)
(* make on Bring.__translate, Bring.__locale and                           *)
(* Bring.map_user_language_to_locale.                                      *)
(***************************************************************************)
\* a dictionary in which two catalog names have the same translation
AmbiguousFile == << <<"Milch", "Milk">>, <<"Glace", "Ice cream">>, <<"Eis", "Ice cream">> >>

\* self.__translations after __load_article_translations
TranslationTables ==
    {EmptyDict,
     [l \in {"de-DE"} |-> LocaleFile(l)],
     [l \in {"de-DE", "en-US"} |-> LocaleFile(l)],
     [l \in {"en-US"} |-> AmbiguousFile]}

\* self.user_list_settings after __load_user_list_settings
ListSettingsTables ==
    {EmptyDict,
     [l \in {"l1"} |-> [listArticleLanguage |-> "en-US", listSectionOrder |-> "[]"]],
     [l \in {"l1"} |-> [listSectionOrder |-> "[]"]]}

\* the sessions the functions are called on
Sessions ==
    {[BringInit EXCEPT !.translations = t, !.user_list_settings = u, !.user_locale = l] :
        t \in TranslationTables, u \in ListSettingsTables, l \in {BRING_DEFAULT_LOCALE, "de-DE"}}

\* the item_id arguments
ItemNames == {"Milch", "Zucchetti", "Zucchini", "Milk", "Glace", "Eis", "Ice cream", "Unknown"}

\* the to_locale and from_locale arguments
LocaleArgs == {None, "", BRING_DEFAULT_LOCALE, "de-DE", "en-US", "en-ES"}

\* the user_locale arguments of map_user_language_to_locale
Languages == {"de", "en", "pt", "xx"}

Countries == {"DE", "CH", "GB", "XX"}

InitTranslator ==
    /\ bring \in Sessions
    /\ now = 0
    /\ op = "idle"
    /\ args = <<>>
    /\ sent = <<>>
    /\ got = <<>>
    /\ result = Ok(NoData)
    /\ tasks = <<>>

\* bring._Bring__translate(item_id, to_locale=..., from_locale=...)
call_translate ==
    /\ op = "idle"
    /\ \E item_id \in ItemNames, to_locale \in LocaleArgs, from_locale \in LocaleArgs :
         Call("translate",
              [item_id |-> item_id, to_locale |-> to_locale, from_locale |-> from_locale],
              <<>>, <<>>, translate(bring, item_id, to_locale, from_locale), bring)

\* the name a translation to a locale returned, translated from that locale
call_translate_back ==
    /\ op = "translate"
    /\ result.exc = "none"
    /\ args.to_locale \notin {None, ""}
    /\ Call("translate_back",
            [item_id |-> result.value, to_locale |-> None, from_locale |-> args.to_locale],
            <<>>, <<>>, translate(bring, result.value, None, args.to_locale), bring)

\* the name a translation from a locale returned, translated to that locale
call_translate_forth ==
    /\ op = "translate"
    /\ result.exc = "none"
    /\ args.to_locale \in {None, ""}
    /\ args.from_locale \notin {None, ""}
    /\ Call("translate_forth",
            [item_id |-> result.value, to_locale |-> args.from_locale, from_locale |-> None],
            <<>>, <<>>, translate(bring, result.value, args.from_locale, None), bring)

\* bring._Bring__locale(list_uuid)
call_locale ==
    /\ op = "idle"
    /\ \E list_uuid \in ListUuids :
         Call("locale", [list_uuid |-> list_uuid], <<>>, <<>>,
              Ok(locale_of(bring, list_uuid)), bring)

\* bring.map_user_language_to_locale(user_locale)
call_map_user_language_to_locale ==
    /\ op = "idle"
    /\ \E language \in Languages, country \in Countries :
         Call("map_user_language_to_locale",
              [language |-> language, country |-> country], <<>>, <<>>,
              Ok(map_user_language_to_locale([language |-> language, country |-> country])),
              bring)

NextTranslator ==
    \/ Resume
    \/ call_translate
    \/ call_translate_back
    \/ call_translate_forth
    \/ call_locale
    \/ call_map_user_language_to_locale

SpecTranslator == InitTranslator /\ [][NextTranslator]_vars

(***************************************************************************)
(* Two set_list_article_language calls awaited together on one session     *)
(* (asyncio.gather).  A task runs from one await to the next in one step;  *)
(* a step is the arrival of what the task awaits.  sent and got hold the   *)
(* requests and the answers of both tasks in the order they happened.      *)
(***************************************************************************)
Tasks == {"t1", "t2"}

\* the session a successful login left behind
LoggedIn ==
    [login_locale(
        login_store(BringInit,
                    [uuid |-> "u1", publicUuid |-> "p1", access_token |-> "a1",
                     refresh_token |-> "r1", token_type |-> "Bearer",
                     expires_in |-> MaxExpiresIn]),
        [userLocale |-> [language |-> "de", country |-> "DE"]])
     EXCEPT !.translations = [l \in {"de-DE"} |-> LocaleFile(l)]]

\* a task before its first step
TaskInit(language) ==
    [pc |-> "start", list_uuid |-> "l1", language |-> language, settings_at |-> 0,
     pending |-> <<>>, dictionaries |-> EmptyDict, result |-> Ok(NoData)]

InitConcurrent ==
    /\ now = 0
    /\ bring = LoggedIn
    /\ op = "gather"
    /\ args = <<>>
    /\ sent = <<>>
    /\ got = <<>>
    /\ result = Ok(NoData)
    /\ tasks = [t \in Tasks |-> TaskInit(IF t = "t1" THEN "en-US" ELSE "de-DE")]

\* the answers the tasks can get to their POST and to their settings read
ConcurrentAnswers(bodies) ==
    {Raised("TimeoutError"), Answer(401, "json", NoData)}
        \cup {Answer(200, "json", d) : d \in bodies}

\* the locales of locales_required the loop does not skip, in order
to_load(s) ==
    SelectSeq(locales_required(s),
              LAMBDA l : l # BRING_DEFAULT_LOCALE /\ l \in BRING_SUPPORTED_LOCALES)

\* the task ends: its call returns or raises
task_ends(t, res) ==
    tasks' = [tasks EXCEPT ![t].pc = "done", ![t].result = res]

\* the call is made: the language is checked and the POST is sent
task_start(t) ==
    /\ tasks[t].pc = "start"
    /\ IF tasks[t].language \notin BRING_SUPPORTED_LOCALES
       THEN task_ends(t, Raise("ValueError")) /\ UNCHANGED sent
       ELSE /\ sent' = Append(sent, set_list_article_language_request(
                                        bring, tasks[t].list_uuid, tasks[t].language))
            /\ tasks' = [tasks EXCEPT ![t].pc = "post"]
    /\ UNCHANGED <<bring, now, op, args, got, result>>

\* the POST is answered: the settings read is sent
task_posted(t) ==
    /\ tasks[t].pc = "post"
    /\ \E r \in ConcurrentAnswers({NoData}) :
        /\ got' = Append(got, r)
        /\ IF set_list_article_language_response(r).exc # "none"
           THEN task_ends(t, set_list_article_language_response(r)) /\ UNCHANGED sent
           ELSE /\ sent' = Append(sent, get_all_user_settings_request(bring))
                /\ tasks' = [tasks EXCEPT ![t].pc = "settings"]
    /\ UNCHANGED <<bring, now, op, args, result>>

\* the rest of __load_article_translations from the locale after an await: the
\* next locale is awaited, or the dictionaries are returned and assigned
task_continues(t, s, rest, dictionaries, r) ==
    IF rest = <<>>
    THEN /\ bring' = [s EXCEPT !.translations = dictionaries]
         /\ tasks' = [tasks EXCEPT ![t].pc = "done", ![t].result = Ok(r),
                                   ![t].pending = <<>>,
                                   ![t].dictionaries = dictionaries,
                                   ![t].settings_at = IF @ = 0 THEN Len(got') ELSE @]
    ELSE /\ bring' = s
         /\ tasks' = [tasks EXCEPT ![t].pc = "file", ![t].pending = rest,
                                   ![t].dictionaries = dictionaries,
                                   ![t].settings_at = IF @ = 0 THEN Len(got') ELSE @]

\* the settings read is answered: the settings are assigned and the load of the
\* dictionaries runs to its first await
task_settings(t) ==
    /\ tasks[t].pc = "settings"
    /\ \E r \in ConcurrentAnswers(SettingsBodies) :
        LET settings == load_user_list_settings(r)
            s == [bring EXCEPT !.user_list_settings = settings.value]
        IN  /\ got' = Append(got, r)
            /\ IF settings.exc # "none"
               THEN task_ends(t, settings) /\ UNCHANGED bring
               ELSE task_continues(t, s, to_load(s), EmptyDict, Answer(200, "json", NoData))
    /\ UNCHANGED <<now, op, args, sent, result>>

\* the executor has tried the file of the locale: it is read, or it cannot be
\* opened and the download is sent
task_file(t) ==
    /\ tasks[t].pc = "file"
    /\ LET locale == Head(tasks[t].pending)
       IN  \/ /\ task_continues(t, bring, Tail(tasks[t].pending),
                                SetItem(tasks[t].dictionaries, locale, LocaleFile(locale)),
                                Answer(200, "json", NoData))
              /\ UNCHANGED sent
           \/ /\ sent' = Append(sent, download_request(locale))
              /\ tasks' = [tasks EXCEPT ![t].pc = "download"]
              /\ UNCHANGED bring
    /\ UNCHANGED <<now, op, args, got, result>>

\* the download is answered
task_download(t) ==
    /\ tasks[t].pc = "download"
    /\ \E kind \in DownloadKinds :
        LET locale == Head(tasks[t].pending)
            r == DownloadResponse(locale, kind)
            res == download_response(r)
        IN  /\ got' = Append(got, r)
            /\ IF res.exc # "none"
               THEN task_ends(t, Raise(res.exc)) /\ UNCHANGED bring
               ELSE task_continues(t, bring, Tail(tasks[t].pending),
                                   SetItem(tasks[t].dictionaries, locale, res.value),
                                   Answer(200, "json", NoData))
    /\ UNCHANGED <<now, op, args, sent, result>>

NextConcurrent ==
    \E t \in Tasks :
        \/ task_start(t)
        \/ task_posted(t)
        \/ task_settings(t)
        \/ task_file(t)
        \/ task_download(t)

SpecConcurrent == InitConcurrent /\ [][NextConcurrent]_vars

(***************************************************************************)
(* Properties                                                              *)
(***************************************************************************)
\* the operations that send one request to the API
RequestOps ==
    {"load_lists", "get_list", "get_all_item_details", "get_all_user_settings",
     "get_user_account", "batch_update_list", "notify"}

\* the token has an expiry and no lifetime left
Expired == expires_in_get(bring) = Ok(0)

\* the Session carries an access token
Authenticated(s) == s.headers["Authorization"] # DEFAULT_HEADERS["Authorization"]

\* C1: a request answered 401 is sent again exactly once, a second 401 raises
\* BringAuthException, and no request is sent more than twice.
C1_RetryOnceOnUnauthorized ==
    op \in RequestOps /\ sent # <<>> =>
        /\ Len(sent) <= 2
        /\ got[1].status = 401 =>
              /\ Len(sent) = 2
              /\ sent[2].url = sent[1].url
              /\ got[2].status = 401 => result.exc = "BringAuthException"

\* C2: a request made while the token is expired and a refresh token is stored is
\* preceded by POST v2/bringauth/token and carries the refreshed Authorization.
C2_RefreshBeforeRequest ==
    [][(/\ op = "idle"
        /\ Expired
        /\ bring.refresh_token # ""
        /\ op' \in RequestOps
        /\ sent' # <<>>)
       => /\ Len(sent') >= 2
          /\ sent'[1].url = "v2/bringauth/token"
          /\ got'[1].status = 200 =>
                sent'[2].authorization = bring'.headers["Authorization"]]_vars

\* C3: a token response with expires_in = E processed at time T stores the expiry
\* T + E, the token is expired exactly from T + E on, and a Session without an
\* expiry counts as expired.
C3_ExpiryOfToken ==
    /\ op \in {"login", "retrieve_new_access_token"} /\ result.exc = "none" =>
          bring.expires_in = <<now + result.value.expires_in>>
    /\ bring.expires_in # <<>> => (Expired <=> now >= bring.expires_in[1])
    /\ bring.expires_in = <<>> => Expired

\* C4: login raises BringAuthException on 400 and 401, BringParseException on a
\* success body that does not decode, BringRequestException on a timeout, a
\* transport error or another error status.
C4_LoginErrors ==
    op = "login" /\ Len(got) = 1 =>
        /\ got[1].status \in {400, 401} => result.exc = "BringAuthException"
        /\ got[1].status = 200 /\ got[1].body = "not_json" =>
              result.exc = "BringParseException"
        /\ got[1].exc # "none" \/ got[1].status \notin {200, 400, 401} =>
              result.exc = "BringRequestException"

\* C5: a call that ends on a 401 answer raises BringAuthException, whether or not
\* the body of the answer can be parsed.
C5_UnauthorizedIsAuthError ==
    /\ op \in RequestOps \cup {"login", "retrieve_new_access_token"}
    /\ Len(got) = 1
    /\ got[1].status = 401
    => result.exc = "BringAuthException"

\* C6: after a successful login the Session holds the uuids, the Authorization,
\* user-UUID, public-user-UUID and country headers, the mapped locale, the refresh
\* token, the expiry, the reloaded settings and the reloaded dictionaries.
C6_LoginPopulatesSession ==
    op = "login" /\ result.exc = "none" =>
        /\ bring.uuid = result.value.uuid
        /\ bring.public_uuid = Get(result.value, "publicUuid", "")
        /\ bring.headers["Authorization"] =
              result.value.token_type \o " " \o result.value.access_token
        /\ bring.headers["X-BRING-USER-UUID"] = bring.uuid
        /\ bring.headers["X-BRING-COUNTRY"] = got[2].data.userLocale.country
        /\ bring.user_locale = map_user_language_to_locale(got[2].data.userLocale)
        /\ bring.refresh_token = result.value.refresh_token
        /\ bring.expires_in = <<now + result.value.expires_in>>
        /\ bring.user_list_settings = ListSettingsDict(got[3].data.userlistsettings)
        /\ DOMAIN bring.translations = locales_loaded(bring)
        /\ "X-BRING-PUBLIC-USER-UUID" \in DOMAIN bring.headers
        /\ bring.headers["X-BRING-PUBLIC-USER-UUID"] = bring.public_uuid

\* C7: the Session becomes Authenticated only by a successful login, stays
\* Authenticated across successful refreshes, and is no longer Authenticated once
\* a refresh is answered 401.
C7_AuthStateMachine ==
    [][/\ ~ Authenticated(bring) /\ Authenticated(bring') =>
             op' = "login" /\ result'.exc = "none"
       /\ Authenticated(bring) /\ op' = "retrieve_new_access_token"
             /\ result'.exc = "none" => Authenticated(bring')
       /\ op' = "retrieve_new_access_token" /\ got'[1].status = 401 =>
             ~ Authenticated(bring')]_vars

\* C8: a successful retrieve_new_access_token sends the supplied refresh token, or
\* the stored one when none is supplied, sets the Authorization header and the
\* expiry from the answer and leaves every other field of the Session as it was.
C8_RefreshChangesTokenOnly ==
    [][op = "idle" /\ op' = "retrieve_new_access_token" /\ result'.exc = "none" =>
          /\ sent'[1].data.refresh_token = Or(args'.refresh_token, bring.refresh_token)
          /\ bring' = [bring EXCEPT
                         !.headers = SetItem(@, "Authorization",
                             result'.value.token_type \o " " \o result'.value.access_token),
                         !.expires_in = <<now + result'.value.expires_in>>]]_vars

\* a refresh after a login, with the stored token, whose answer carries another
\* refresh token than the stored one
C8_Witness ==
    /\ op = "retrieve_new_access_token"
    /\ result.exc = "none"
    /\ args.refresh_token = None
    /\ sent[1].data.refresh_token = "r1"
    /\ result.value.refresh_token # bring.refresh_token
    /\ bring.uuid = "u1"
    /\ bring.headers["Authorization"] = "Bearer a2"
    /\ bring.user_list_settings # EmptyDict
    /\ bring.translations # EmptyDict

\* C9: retrieve_new_access_token without an argument on a Session without a
\* stored refresh token raises BringAuthException.
C9_NoRefreshTokenIsAuthError ==
    /\ op = "retrieve_new_access_token"
    /\ args.refresh_token = None
    /\ bring.refresh_token = ""
    => result.exc = "BringAuthException"

\* C10: a GET answered 304 for a URL whose last answer carried an ETag returns the
\* body of that answer, or is sent once more when that body is not cached.
C10_NotModifiedReturnsCachedBody ==
    [][(/\ op = "get_all_item_details"
        /\ result.exc = "none"
        /\ got[1].etag # ""
        /\ op' = "get_all_item_details"
        /\ args' = args
        /\ got'[1].status = 304)
       => \/ result' = result
          \/ Len(sent') = 2]_vars

\* the catalog names of a dictionary
Keys(d) == {d[i][1] : i \in DOMAIN d}

\* the calls of the translator
TranslateOps == {"translate", "translate_back", "translate_forth"}

\* the locale a call of translate resolves
Resolved == Or(args.to_locale, args.from_locale)

\* a name of the dictionary of a loaded, supported, non-default locale was translated
\* to that locale, and the outcome is translated back
RoundTrip ==
    /\ op = "translate"
    /\ op' = "translate_back"
    /\ args.to_locale \in (BRING_SUPPORTED_LOCALES \ {BRING_DEFAULT_LOCALE})
                          \cap DOMAIN bring.translations
    /\ args.item_id \in Keys(bring.translations[args.to_locale])

\* C11: translating a name of L's dictionary to L and back from L gives the name
C11_RoundTrip == [][RoundTrip => result' = Ok(args.item_id)]_vars

\* C11, amended: translating a name of L's dictionary to L and back from L gives a
\* name of the dictionary with the same translation, which is the name itself
\* when no other name of the dictionary has its translation
C11_RoundTripUpToTranslation ==
    [][RoundTrip =>
        LET d == bring.translations[args.to_locale]
            x == args.item_id
        IN  /\ result'.exc = "none"
            /\ result'.value \in Keys(d)
            /\ Lookup(d, result'.value, None) = Lookup(d, x, None)
            /\ (\A y \in Keys(d) \ {x} : Lookup(d, y, None) # Lookup(d, x, None))
                    => result'.value = x]_vars

C11_Witness ==
    /\ op = "translate_back"
    /\ args.from_locale = "en-US"
    /\ "en-US" \in DOMAIN bring.translations
    /\ args.item_id = "Milk"
    /\ result = Ok("Milch")

\* C12: with the default locale resolved, translate returns the name unchanged
C12_DefaultLocaleIsIdentity ==
    op \in TranslateOps /\ Resolved = BRING_DEFAULT_LOCALE => result = Ok(args.item_id)

C12_Witness ==
    /\ op = "translate"
    /\ args.to_locale = None
    /\ args.from_locale = BRING_DEFAULT_LOCALE
    /\ bring.translations = EmptyDict
    /\ result = Ok("Unknown")

\* C13: translate raises ValueError exactly when no locale is given or the locale is
\* not supported; with a supported locale it raises BringTranslationException,
\* and nothing else, exactly when the dictionary of the locale is not loaded
C13_TranslateErrors ==
    op \in TranslateOps =>
        /\ result.exc = "ValueError" <=> Resolved \notin BRING_SUPPORTED_LOCALES
        /\ Resolved \in BRING_SUPPORTED_LOCALES =>
              /\ result.exc \in {"none", "BringTranslationException"}
              /\ result.exc = "BringTranslationException" <=>
                    /\ Resolved # BRING_DEFAULT_LOCALE
                    /\ Resolved \notin DOMAIN bring.translations

C13_Witness ==
    /\ op = "translate"
    /\ args.to_locale = ""
    /\ args.from_locale = "en-ES"
    /\ "en-US" \in DOMAIN bring.translations
    /\ result.exc = "ValueError"

\* C14: map_user_language_to_locale gives language-COUNTRY when that is supported,
\* else the locale of the language, else the default locale: always a supported one
C14_MapUserLanguage ==
    op = "map_user_language_to_locale" =>
        LET locale == args.language \o "-" \o args.country
        IN  /\ result.exc = "none"
            /\ result.value \in BRING_SUPPORTED_LOCALES
            /\ locale \in BRING_SUPPORTED_LOCALES => result.value = locale
            /\ locale \notin BRING_SUPPORTED_LOCALES /\ args.language \in DOMAIN MAP_LANG_TO_LOCALE
                    => result.value = MAP_LANG_TO_LOCALE[args.language]
            /\ locale \notin BRING_SUPPORTED_LOCALES /\ args.language \notin DOMAIN MAP_LANG_TO_LOCALE
                    => result.value = BRING_DEFAULT_LOCALE
            /\ args = [language |-> "de", country |-> "XX"] => result.value = "de-DE"
            /\ args = [language |-> "en", country |-> "XX"] => result.value = "en-US"
            /\ args = [language |-> "en", country |-> "GB"] => result.value = "en-GB"

C14_Witness ==
    /\ op = "map_user_language_to_locale"
    /\ args = [language |-> "en", country |-> "GB"]
    /\ result = Ok("en-GB")

\* C15: the locale of a list is its listArticleLanguage when the list has settings
\* with that key, and the locale of the user in every other case
C15_ListLocale ==
    op = "locale" =>
        LET l == args.list_uuid
            settings == bring.user_list_settings
        IN  result = Ok(IF l \in DOMAIN settings /\ "listArticleLanguage" \in DOMAIN settings[l]
                        THEN settings[l]["listArticleLanguage"]
                        ELSE bring.user_locale)

C15_Witness ==
    /\ op = "locale"
    /\ args.list_uuid = "l1"
    /\ "l1" \in DOMAIN bring.user_list_settings
    /\ "listArticleLanguage" \notin DOMAIN bring.user_list_settings["l1"]
    /\ bring.user_locale = "de-DE"
    /\ result = Ok("de-DE")

\* the items of a call of batch_update_list as a list
ItemsOf(a) == IF a.items.dict THEN <<a.items.value>> ELSE a.items.value

\* a catalog name in a locale, by the dictionaries of the session
ToLocale(name, locale) ==
    IF locale = BRING_DEFAULT_LOCALE THEN name
    ELSE Lookup(bring.translations[locale], name, name)

\* the catalog name of a name in a locale, by the dictionaries of the session
FromLocale(name, locale) ==
    IF locale = BRING_DEFAULT_LOCALE THEN name
    ELSE InverseLookup(bring.translations[locale], name, name)

\* C16: batch_update_list sends at most one request, a PUT when it returns, with one
\* change per item in the order of the items; the operation of a change is the
\* one of the item, else the one of the call, else TO_PURCHASE; the geolocation
\* fields an item does not supply are "0.0"
C16_BatchPayload ==
    op = "batch_update_list" =>
        /\ Len(sent) <= 1
        /\ result.exc = "none" => Len(sent) = 1
        /\ sent # <<>> =>
            LET list == ItemsOf(args)
                changes == sent[1].data.changes
            IN  /\ sent[1].method = "PUT"
                /\ sent[1].url = "v2/bringlists/" \o args.list_uuid \o "/items"
                /\ Len(changes) = Len(list)
                /\ \A i \in 1..Len(list) :
                     /\ changes[i].spec = list[i].spec
                     /\ changes[i].uuid = list[i].uuid
                     /\ changes[i].operation =
                            IF "operation" \in DOMAIN list[i] THEN list[i].operation
                            ELSE IF args.operation # None THEN args.operation
                            ELSE "TO_PURCHASE"
                     /\ \A k \in {"accuracy", "altitude", "latitude", "longitude"} :
                            k \notin DOMAIN list[i] => changes[i][k] = "0.0"

C16_Witness ==
    /\ op = "batch_update_list"
    /\ result.exc = "none"
    /\ ~ args.items.dict
    /\ args.operation = COMPLETE
    /\ Len(sent[1].data.changes) = 2
    /\ sent[1].data.changes[1].operation = REMOVE
    /\ sent[1].data.changes[2].operation = COMPLETE

\* C17: get_list returns every itemId of purchase and of recently translated to the
\* locale of the list, and batch_update_list sends every itemId translated from
\* the locale of the list
C17_NamesInListLocale ==
    /\ op = "get_list" /\ result.exc = "none" =>
        LET locale == locale_of(bring, args.list_uuid)
            items == got[1].data.items
        IN  /\ Len(result.value.purchase) = Len(items.purchase)
            /\ Len(result.value.recently) = Len(items.recently)
            /\ \A i \in 1..Len(items.purchase) :
                  result.value.purchase[i].itemId = ToLocale(items.purchase[i].itemId, locale)
            /\ \A i \in 1..Len(items.recently) :
                  result.value.recently[i].itemId = ToLocale(items.recently[i].itemId, locale)
    /\ op = "batch_update_list" /\ sent # <<>> =>
        LET locale == locale_of(bring, args.list_uuid)
            list == ItemsOf(args)
        IN  \A i \in 1..Len(list) :
              sent[1].data.changes[i].itemId = FromLocale(list[i].itemId, locale)

C17_Witness ==
    /\ op = "get_list"
    /\ result.exc = "none"
    /\ bring.user_locale # "en-US"
    /\ locale_of(bring, args.list_uuid) = "en-US"
    /\ got[1].data.items.purchase # <<>>
    /\ got[1].data.items.purchase[1].itemId = "Milch"
    /\ result.value.purchase[1].itemId = "Milk"

\* the single-item wrappers of batch_update_list
WrapperOps == {"save_item", "update_item", "remove_item", "complete_item"}

\* C18: each wrapper sends the one request of batch_update_list for the single item
\* {itemId, spec, uuid} with its operation (remove_item with an empty spec), and
\* a BringRequestException of that call is raised again with the message of the
\* wrapper
C18_WrappersOfBatchUpdate ==
    op \in WrapperOps =>
        LET operation == CASE op = "save_item" -> "TO_PURCHASE"
                           [] op = "update_item" -> "TO_PURCHASE"
                           [] op = "complete_item" -> "TO_RECENTLY"
                           [] op = "remove_item" -> "REMOVE"
            spec == IF op = "remove_item" THEN "" ELSE args.specification
            message == CASE op = "save_item" -> SavingFailed(args)
                         [] op = "update_item" -> UpdatingFailed(args)
                         [] op = "complete_item" -> CompletingFailed(args)
                         [] op = "remove_item" -> RemovingFailed(args)
        IN  /\ Len(sent) <= 1
            /\ result.exc = "none" => Len(sent) = 1
            /\ sent # <<>> =>
                /\ sent[1].method = "PUT"
                /\ sent[1].url = "v2/bringlists/" \o args.list_uuid \o "/items"
                /\ sent[1].data.changes =
                     << [itemId |-> FromLocale(args.item_name,
                                                locale_of(bring, args.list_uuid)),
                         spec |-> spec, uuid |-> args.item_uuid, operation |-> operation,
                         accuracy |-> "0.0", altitude |-> "0.0",
                         latitude |-> "0.0", longitude |-> "0.0"] >>
            /\ got # <<>> /\ (got[1].exc # "none" \/ got[1].status \in {404, 500}) =>
                result.exc = "BringRequestException"
            /\ result.exc = "BringRequestException" => result.value = message

C18_Witness ==
    /\ op = "remove_item"
    /\ got # <<>>
    /\ got[1].exc = "TimeoutError"
    /\ sent[1].data.changes[1].operation = REMOVE
    /\ result.exc = "BringRequestException"
    /\ result.value = "Removing item Milk from list l1 failed due to request exception."

\* C19: notify with URGENT_MESSAGE and no item name raises ValueError without a
\* request, and a notification_type that is no BringNotificationType is refused
\* without a request
C19_NotifyValidation ==
    op = "notify" =>
        /\ (/\ args.notification_type.type = "BringNotificationType"
            /\ args.notification_type.value = "URGENT_MESSAGE"
            /\ args.item_name \in {None, ""})
                => result.exc = "ValueError" /\ sent = <<>>
        /\ args.notification_type.type # "BringNotificationType"
                => result.exc \in {"TypeError", "AttributeError"} /\ sent = <<>>

C19_Witness ==
    /\ op = "notify"
    /\ args.notification_type = [type |-> "BringNotificationType", value |-> "URGENT_MESSAGE"]
    /\ args.item_name = ""
    /\ Authenticated(bring)
    /\ result.exc = "ValueError"
    /\ sent = <<>>

ReloadOps == {"login", "set_list_article_language"}

\* the locales the settings of a session and its user ask for
Configured(s) ==
    {Get(s.user_list_settings[l], "listArticleLanguage", s.user_locale) :
        l \in DOMAIN s.user_list_settings} \cup {s.user_locale}

\* the locales that have a dictionary of their own
Translated == BRING_SUPPORTED_LOCALES \ {BRING_DEFAULT_LOCALE}

\* C21: set_list_article_language with an unsupported language raises ValueError,
\* sends nothing and leaves the session as it is; with a supported language it
\* sends the POST and, when it returns, has read the settings after the POST,
\* stored them, and loaded the dictionaries those settings ask for
C21_SetListArticleLanguage ==
    [][op = "idle" /\ op' = "set_list_article_language" =>
        /\ args'.language \notin BRING_SUPPORTED_LOCALES =>
              result'.exc = "ValueError" /\ sent' = <<>> /\ bring' = bring
        /\ args'.language \in BRING_SUPPORTED_LOCALES =>
              /\ sent' # <<>>
              /\ sent'[1].method = "POST"
              /\ sent'[1].url = "bringusersettings/" \o bring.uuid \o "/"
                                    \o args'.list_uuid \o "/listArticleLanguage"
              /\ sent'[1].data = [value |-> args'.language]
              /\ result'.exc = "none" =>
                    /\ got'[1].status = 200
                    /\ Len(sent') >= 2
                    /\ sent'[2].url = "bringusersettings/" \o bring.uuid
                    /\ bring'.user_list_settings =
                            ListSettingsDict(got'[2].data.userlistsettings)
                    /\ DOMAIN bring'.translations = Configured(bring') \cap Translated
                    /\ \A i \in 3..Len(sent') :
                            \E l \in Configured(bring') :
                                sent'[i].url = "locale/articles." \o l \o ".json"]_vars

C21_Witness ==
    /\ op = "set_list_article_language"
    /\ result.exc = "none"
    /\ Len(sent) = 3
    /\ bring.user_locale = BRING_DEFAULT_LOCALE
    /\ "l1" \in DOMAIN bring.user_list_settings
    /\ DOMAIN bring.translations = {"en-US"}
    /\ bring.translations["en-US"] = RemoteFile("en-US")

\* C22: a load of the dictionaries gives a dictionary for exactly the locales of the
\* known lists (the locale of the user for a list without one) and the locale
\* of the user, without the default locale and the unsupported locales; of the
\* 20 supported locales 19 have a dictionary
C22_LoadedLocales ==
    /\ Cardinality(BRING_SUPPORTED_LOCALES) = 20
    /\ Cardinality(Translated) = 19
    /\ op \in ReloadOps /\ result.exc = "none" =>
        DOMAIN bring.translations =
            {l \in Configured(bring) : l # BRING_DEFAULT_LOCALE /\ l \in BRING_SUPPORTED_LOCALES}

C22_Witness ==
    /\ op = "login"
    /\ result.exc = "none"
    /\ DOMAIN bring.user_list_settings = {"l1", "l2"}
    /\ "listArticleLanguage" \notin DOMAIN bring.user_list_settings["l1"]
    /\ bring.user_list_settings["l2"]["listArticleLanguage"] = "xx-XX"
    /\ bring.user_locale = "de-DE"
    /\ DOMAIN bring.translations = {"de-DE"}

\* a success answer with a decodable body
Success(r) == r.exc = "none" /\ r.status = 200 /\ r.body = "json"

\* C23: a success body that lacks a required field makes login,
\* get_all_user_settings and get_list raise BringParseException
C23_MissingFieldIsParseError ==
    /\ (/\ op = "login"
        /\ Len(got) = 1
        /\ Success(got[1])
        /\ ~ ({"uuid", "access_token", "refresh_token", "expires_in"}
                \subseteq DOMAIN got[1].data))
            => result.exc = "BringParseException"
    /\ (/\ op = "get_all_user_settings"
        /\ Success(got[1])
        /\ ~ ({"usersettings", "userlistsettings"} \subseteq DOMAIN got[1].data))
            => result.exc = "BringParseException"
    /\ (/\ op = "get_list"
        /\ Success(got[1])
        /\ "items" \notin DOMAIN got[1].data)
            => result.exc = "BringParseException"

\* C24: a dictionary that is loaded stays loaded, with its content
C24_DictionariesOnlyGrow ==
    [][\A l \in DOMAIN bring.translations :
            /\ l \in DOMAIN bring'.translations
            /\ bring'.translations[l] = bring.translations[l]]_vars

\* C25: a login that raises leaves the session as it was
C25_FailedLoginChangesNothing ==
    [][op = "idle" /\ op' = "login" /\ result'.exc # "none" => bring' = bring]_vars

\* C26: after a successful login or set_list_article_language every list, known to
\* the settings or not, whose locale is supported and not the default has its
\* dictionary loaded, and no name fails to translate for want of a dictionary
C26_DictionaryForEveryList ==
    op \in ReloadOps /\ result.exc = "none" =>
        \A l \in ListUuids \cup {"unknown"} :
            LET locale == locale_of(bring, l)
            IN  /\ locale \in Translated => locale \in DOMAIN bring.translations
                /\ \A name \in {"Milch", "Milk"} :
                     /\ translate(bring, name, locale, None).exc # "BringTranslationException"
                     /\ translate(bring, name, None, locale).exc # "BringTranslationException"

C26_Witness ==
    /\ op = "set_list_article_language"
    /\ result.exc = "none"
    /\ locale_of(bring, "l1") = "en-US"
    /\ locale_of(bring, "unknown") = "de-DE"
    /\ DOMAIN bring.translations = {"en-US", "de-DE"}

\* C27: a set_list_article_language that raises after its POST was accepted leaves
\* the settings and the dictionaries as they were
C27_FailedReloadChangesNothing ==
    [][(/\ op = "idle"
        /\ op' = "set_list_article_language"
        /\ result'.exc # "none"
        /\ Len(got') >= 1
        /\ Success(got'[1]))
            => /\ bring'.user_list_settings = bring.user_list_settings
               /\ bring'.translations = bring.translations]_vars

\* the calls that send the changes of a list
BatchOps == WrapperOps \cup {"batch_update_list"}

\* C28: when the locale of the list is unsupported or its dictionary is not loaded,
\* batch_update_list raises and sends nothing
C28_NoRequestWhenTranslationFails ==
    op \in BatchOps =>
        LET locale == locale_of(bring, args.list_uuid)
        IN  /\ locale \notin BRING_SUPPORTED_LOCALES =>
                result.exc = "ValueError" /\ sent = <<>>
            /\ locale \in Translated /\ locale \notin DOMAIN bring.translations =>
                result.exc = "BringTranslationException" /\ sent = <<>>

C28_Witness ==
    /\ op = "batch_update_list"
    /\ ~ args.items.dict
    /\ Len(args.items.value) = 2
    /\ locale_of(bring, args.list_uuid) = "en-US"
    /\ "en-US" \notin DOMAIN bring.translations
    /\ result.exc = "BringTranslationException"
    /\ sent = <<>>

\* the names of a dictionary in its locale
Values(d) == {d[i][2] : i \in DOMAIN d}

\* a name that a dictionary of a loaded, supported, non-default locale gives was
\* translated from that locale, and the outcome is translated to the locale
RoundTripFromLocale ==
    /\ op = "translate"
    /\ op' = "translate_forth"
    /\ args.from_locale \in Translated \cap DOMAIN bring.translations
    /\ args.item_id \in Values(bring.translations[args.from_locale])

\* C29: translating a name that occurs in L's dictionary from L and back to L gives
\* the name, also when several catalog names have it as their translation
C29_RoundTripFromLocale == [][RoundTripFromLocale => result' = Ok(args.item_id)]_vars

C29_Witness ==
    /\ op = "translate_forth"
    /\ args.to_locale = "en-US"
    /\ "en-US" \in DOMAIN bring.translations
    /\ bring.translations["en-US"] = AmbiguousFile
    /\ args.item_id = "Eis"
    /\ result = Ok("Ice cream")

\* both calls have returned
BothReturned == \A t \in Tasks : tasks[t].pc = "done" /\ tasks[t].result.exc = "none"

\* the task whose settings read was answered last
LastAnswered == CHOOSE t \in Tasks : \A u \in Tasks : tasks[u].settings_at <= tasks[t].settings_at

\* C30: once two interleaved set_list_article_language calls have both returned, the
\* settings are those of the settings read answered last and every supported,
\* non-default locale they configure has a dictionary
C30_InterleavedReloads ==
    BothReturned =>
        /\ bring.user_list_settings =
              ListSettingsDict(got[tasks[LastAnswered].settings_at].data.userlistsettings)
        /\ Configured(bring) \cap Translated \subseteq DOMAIN bring.translations

====
